---------------------------- MODULE Spec2Model ----------------------------
(***************************************************************************)
(* Model of the Tamil page predictors of src/app.py (TamilPagePredictor,   *)
(* sentence embeddings + cosine similarity) and src/app_simple.py          *)
(* (SimpleTamilPagePredictor, substring keyword matching), together with   *)
(* the module-level `predictor` binding and the /predict handlers.         *)
(*                                                                         *)
(* Text is a sequence of one-character strings, so that str.lower(),       *)
(* str.split() and the `in` substring test are computed, not assumed.      *)
(* A Python dict is a sequence of [key, value] entries in insertion order. *)
(***************************************************************************)
EXTENDS Integers, Sequences, FiniteSets, TLC

VARIABLES
    app,            \* which module runs: "app" (embeddings) or "app_simple"
    catalog_file,   \* the content of TamilKnowledgeBase.json
    encode,         \* SentenceTransformer.encode: text -> vector, fixed per process
    argsortStable,  \* whether this build's np.argsort keeps ties in index order
    phase,          \* "start", "serving" or "import_failed"
    predictor,      \* the module-level predictor (bound = FALSE until assigned)
    reloads,        \* how often the index was rebuilt on the bound predictor
    rebuild,        \* where a rerun of prepare_candidates stands: "idle" or "encoding"
    response        \* what the last handler call returned

vars == <<app, catalog_file, encode, argsortStable, phase, predictor, reloads, rebuild,
          response>>

-----------------------------------------------------------------------------
(* Bounds of the model *)

MaxPages == 3
MaxPagesWide == 6
MaxReloads == 1
MaxPagesRepeat == 2

(* top-5 slice of both predict_page methods *)
TOP_K == 5

-----------------------------------------------------------------------------
(* Text *)

kAB == <<"a", "b">>
kA == <<"A">>
kC == <<"c">>
ka == <<"a">>

Queries == {<< >>, <<" ">>, kAB, kA, <<"b">>, <<"B", " ", "c">>,
            <<"a", " ", " ", "a">>, <<"d">>}

\* the texts the embedding model is asked to encode
EmbedTexts == {kAB, kA}

LowerChar(c) == IF c = "A" THEN "a" ELSE IF c = "B" THEN "b" ELSE c

\* str.lower()
Lower(s) == [i \in 1..Len(s) |-> LowerChar(s[i])]

IsSpace(c) == c = " "

\* str.split(): the maximal runs of non-whitespace characters, in order
RECURSIVE SplitFrom(_, _, _)
SplitFrom(s, i, cur) ==
    IF i > Len(s)
    THEN IF cur = << >> THEN << >> ELSE <<cur>>
    ELSE IF IsSpace(s[i])
         THEN (IF cur = << >> THEN << >> ELSE <<cur>>) \o SplitFrom(s, i + 1, << >>)
         ELSE SplitFrom(s, i + 1, Append(cur, s[i]))

Split(s) == SplitFrom(s, 1, << >>)

\* str.strip()
RECURSIVE Strip(_)
Strip(s) ==
    IF s = << >> THEN s
    ELSE IF IsSpace(Head(s)) THEN Strip(Tail(s))
    ELSE IF IsSpace(s[Len(s)]) THEN Strip(SubSeq(s, 1, Len(s) - 1))
    ELSE s

\* Python's `sub in s` on str
Contains(sub, s) ==
    \E i \in 0..(Len(s) - Len(sub)) : SubSeq(s, i + 1, i + Len(sub)) = sub

-----------------------------------------------------------------------------
(* Numbers *)

Max(a, b) == IF a >= b THEN a ELSE b
Min(a, b) == IF a <= b THEN a ELSE b

RECURSIVE GCD(_, _)
GCD(a, b) == IF b = 0 THEN a ELSE GCD(b, a % b)

Abs(x) == IF x < 0 THEN -x ELSE x

\* the value of n / d (d > 0), kept exact as a reduced fraction
Divide(n, d) ==
    LET g == GCD(Abs(n), d)
    IN  [num |-> n \div g, den |-> d \div g]

\* a >= b on these values
Geq(a, b) == a.num * b.den >= b.num * a.den

-----------------------------------------------------------------------------
(* Python dict: entries in insertion order; assigning to an existing key   *)
(* keeps its position.                                                     *)

DictHas(d, k) == \E i \in 1..Len(d) : d[i].key = k

DictGet(d, k) == d[CHOOSE i \in 1..Len(d) : d[i].key = k].value

DictSet(d, k, v) ==
    IF DictHas(d, k)
    THEN [i \in 1..Len(d) |-> IF d[i].key = k THEN [key |-> k, value |-> v] ELSE d[i]]
    ELSE Append(d, [key |-> k, value |-> v])

DictKeys(d) == [i \in 1..Len(d) |-> d[i].key]

-----------------------------------------------------------------------------
(* The catalog (TamilKnowledgeBase.json): {"features": [feature, ...]}.    *)
(* Page names are unique, as the catalog format requires; a feature may    *)
(* lack the page_name key or the optional description key.                 *)

PageNames == <<"p1", "p2", "p3", "p4", "p5", "p6", "p7", "p8">>

KeywordLists == {<< >>, <<kAB>>, <<kA>>, <<kC, kA>>, <<kA, kAB>>}
WideKeywordLists == {<< >>, <<kAB>>}
EmbedKeywordLists == {<< >>, <<kAB>>, <<kA, kAB>>}
\* a keyword listed twice, and one listed in two spellings
RepeatKeywordLists == {<<kA, kA>>, <<kA, ka>>, <<kAB>>}

Feature(i, kws, named) ==
    [has_page_name |-> named, page_name |-> PageNames[i], keywords |-> kws,
     has_description |-> (i % 2 = 1), description |-> <<"about", PageNames[i]>>]

SeqsUpTo(S, n) == UNION {[1..k -> S] : k \in 0..n}

Catalog(kwlists, missing) ==
    [features |-> [i \in 1..Len(kwlists) |-> Feature(i, kwlists[i], i # missing)]]

\* well-formed catalogs: a few pages with varied keyword lists, or many
\* pages with simple ones
SmallCatalogs == {Catalog(ks, 0) : ks \in SeqsUpTo(KeywordLists, MaxPages)}
WideCatalogs == {Catalog(ks, 0) : ks \in SeqsUpTo(WideKeywordLists, MaxPagesWide)}
\* catalogs in which one feature lacks page_name
MalformedCatalogs ==
    UNION {{Catalog(ks, m) : m \in 1..Len(ks)} : ks \in SeqsUpTo(WideKeywordLists, MaxPages)}

EmbedCatalogs == {Catalog(ks, 0) : ks \in SeqsUpTo(EmbedKeywordLists, MaxPages)}
RepeatCatalogs == {Catalog(ks, 0) : ks \in SeqsUpTo(RepeatKeywordLists, MaxPagesRepeat)}

\* the catalogs each module is run on
CatalogsOf(a) ==
    IF a = "app" THEN EmbedCatalogs \cup MalformedCatalogs
    ELSE SmallCatalogs \cup WideCatalogs \cup RepeatCatalogs \cup MalformedCatalogs

\* feature.get('description', '')
GetDescription(feature) ==
    IF feature.has_description THEN feature.description ELSE << >>

\* get_page_description of both classes
RECURSIVE DescriptionFrom(_, _, _)
DescriptionFrom(features, i, page_name) ==
    IF i > Len(features) THEN << >>
    ELSE IF features[i].page_name = page_name THEN GetDescription(features[i])
    ELSE DescriptionFrom(features, i + 1, page_name)

get_page_description(kb, page_name) == DescriptionFrom(kb.features, 1, page_name)

-----------------------------------------------------------------------------
(* SimpleTamilPagePredictor (src/app_simple.py)                            *)

RECURSIVE IndexKeywords(_, _, _, _)
\* the inner loop of prepare_keyword_index over one feature's keywords
IndexKeywords(k2p, keywords, j, page_name) ==
    IF j > Len(keywords) THEN k2p
    ELSE LET kw == keywords[j]
             old == IF DictHas(k2p, kw) THEN DictGet(k2p, kw) ELSE << >>
         IN  IndexKeywords(DictSet(k2p, kw, Append(old, page_name)),
                           keywords, j + 1, page_name)

RECURSIVE IndexFeatures(_, _, _, _)
\* the outer loop: feature['page_name'] raises KeyError on a feature without it
IndexFeatures(features, i, k2p, pk) ==
    IF i > Len(features)
    THEN [raised |-> FALSE, keyword_to_page |-> k2p, page_keywords |-> pk]
    ELSE IF ~features[i].has_page_name
    THEN [raised |-> TRUE, keyword_to_page |-> k2p, page_keywords |-> pk]
    ELSE IndexFeatures(features, i + 1,
                       IndexKeywords(k2p, features[i].keywords, 1, features[i].page_name),
                       DictSet(pk, features[i].page_name, features[i].keywords))

\* prepare_keyword_index: both dicts start empty on every run
prepare_keyword_index(kb) == IndexFeatures(kb.features, 1, << >>, << >>)

\* faulty variant: the second operand of `or` is the keyword itself, true when non-empty
WordMatchesTruthy(word, keyword) ==
    Contains(word, Lower(keyword)) \/ Lower(keyword) # << >>

\* the test of line 52
WordMatches(word, keyword) ==
    Contains(word, Lower(keyword)) \/ Contains(Lower(keyword), word)

RECURSIVE CountPages(_, _, _)
\* for page in pages: page_scores[page] += 1 (inserting 0 first)
CountPages(scores, pages, i) ==
    IF i > Len(pages) THEN scores
    ELSE CountPages(DictSet(scores, pages[i],
                            (IF DictHas(scores, pages[i]) THEN DictGet(scores, pages[i]) ELSE 0) + 1),
                    pages, i + 1)

RECURSIVE ScanKeywords(_, _, _, _)
ScanKeywords(scores, word, k2p, j) ==
    IF j > Len(k2p) THEN scores
    ELSE ScanKeywords(IF WordMatches(word, k2p[j].key)
                      THEN CountPages(scores, k2p[j].value, 1)
                      ELSE scores,
                      word, k2p, j + 1)

RECURSIVE ScanWords(_, _, _, _)
\* lines 50-56
ScanWords(scores, words, i, k2p) ==
    IF i > Len(words) THEN scores
    ELSE ScanWords(ScanKeywords(scores, words[i], k2p, 1), words, i + 1, k2p)

\* faulty variant: only pages that own a keyword are listed
ZeroScoresKeyworded(pk) ==
    LET RECURSIVE Keep(_)
        Keep(i) == IF i > Len(pk) THEN << >>
                   ELSE (IF pk[i].value = << >> THEN << >>
                         ELSE <<[key |-> pk[i].key, value |-> 0]>>) \o Keep(i + 1)
    IN  Keep(1)

\* faulty variant: the fallback score is 1
ZeroScoresOne(pk) == [i \in 1..Len(pk) |-> [key |-> pk[i].key, value |-> 1]]

\* lines 59-60: no page scored, so every page of page_keywords scores 0
ZeroScores(pk) == [i \in 1..Len(pk) |-> [key |-> pk[i].key, value |-> 0]]

PageScores(self, query_words) ==
    LET scored == ScanWords(<< >>, query_words, 1, self.keyword_to_page)
    IN  IF scored = << >> THEN ZeroScores(self.page_keywords) ELSE scored

RECURSIVE InsertDescendingBeforeTies(_, _)
\* faulty variant: an unstable sort, e goes before the elements of equal value
InsertDescendingBeforeTies(sorted, e) ==
    IF sorted = << >> THEN <<e>>
    ELSE IF Head(sorted).value > e.value
         THEN <<Head(sorted)>> \o InsertDescendingBeforeTies(Tail(sorted), e)
         ELSE <<e>> \o sorted

RECURSIVE InsertDescending(_, _)
\* place e after every element whose value is >= e.value
InsertDescending(sorted, e) ==
    IF sorted = << >> THEN <<e>>
    ELSE IF Head(sorted).value >= e.value
         THEN <<Head(sorted)>> \o InsertDescending(Tail(sorted), e)
         ELSE <<e>> \o sorted

RECURSIVE SortDescending(_, _, _)
SortDescending(items, i, acc) ==
    IF i > Len(items) THEN acc
    ELSE SortDescending(items, i + 1, InsertDescending(acc, items[i]))

\* sorted(page_scores.items(), key=lambda x: x[1], reverse=True): stable
SortedPages(page_scores) == SortDescending(page_scores, 1, << >>)

\* faulty variant: the slice forgotten
TopKAll(s) == s

\* the [:5] slices
TopK(s) == SubSeq(s, 1, Min(TOP_K, Len(s)))

RECURSIVE FirstSharing(_, _, _)
\* lines 68-72: the first keyword some query word is a substring of
FirstSharing(keywords, j, query_words) ==
    IF j > Len(keywords) THEN << >>
    ELSE IF \E w \in 1..Len(query_words) : Contains(query_words[w], Lower(keywords[j]))
    THEN keywords[j]
    ELSE FirstSharing(keywords, j + 1, query_words)

\* lines 67-75
MatchingKeyword(keywords, query_words) ==
    LET found == FirstSharing(keywords, 1, query_words)
    IN  IF found = << >> /\ keywords # << >> THEN keywords[1] ELSE found

SimpleResult(self, kb, entry, query_words) ==
    [page_name |-> entry.key,
     keyword |-> MatchingKeyword(DictGet(self.page_keywords, entry.key), query_words),
     similarity_score |-> Divide(entry.value, Max(Len(query_words), 1)),
     description |-> get_page_description(kb, entry.key)]

\* SimpleTamilPagePredictor.predict_page
SimplePredictPage(self, kb, query_text) ==
    LET query_words == Split(Lower(query_text))
        top == TopK(SortedPages(PageScores(self, query_words)))
    IN  [raised |-> FALSE,
         results |-> [i \in 1..Len(top) |-> SimpleResult(self, kb, top[i], query_words)]]

-----------------------------------------------------------------------------
(* TamilPagePredictor (src/app.py)                                         *)

\* embeddings of dimension 1: the cosine of two of them is exactly -1, 0 or 1
Vectors == {<<-1>>, <<0>>, <<1>>}

Dot(u, v) == u[1] * v[1]

\* L2 norm; sklearn's normalize leaves a zero vector as it is (norm taken as 1)
Norm(v) == IF Abs(v[1]) = 0 THEN 1 ELSE Abs(v[1])

\* sklearn.metrics.pairwise.cosine_similarity of one pair
CosineSimilarity(u, v) == Divide(Dot(u, v), Norm(u) * Norm(v))

\* self.model.encode(texts)
EncodeAll(enc, texts) == [i \in 1..Len(texts) |-> enc[texts[i]]]

RECURSIVE AppendKeywords(_, _, _, _)
\* lines 39-41
AppendKeywords(lists, keywords, j, page_name) ==
    IF j > Len(keywords) THEN lists
    ELSE AppendKeywords([candidates |-> Append(lists.candidates, page_name),
                         candidate_texts |-> Append(lists.candidate_texts, keywords[j])],
                        keywords, j + 1, page_name)

RECURSIVE AppendFeaturesSkipping(_, _, _)
\* faulty variant: a feature without page_name is skipped instead of raising
AppendFeaturesSkipping(features, i, lists) ==
    IF i > Len(features) THEN [raised |-> FALSE, lists |-> lists]
    ELSE IF ~features[i].has_page_name THEN AppendFeaturesSkipping(features, i + 1, lists)
    ELSE AppendFeaturesSkipping(features, i + 1,
                        AppendKeywords(lists, features[i].keywords, 1, features[i].page_name))

RECURSIVE AppendFeatures(_, _, _)
\* lines 37-41: feature['page_name'] raises KeyError on a feature without it
AppendFeatures(features, i, lists) ==
    IF i > Len(features) THEN [raised |-> FALSE, lists |-> lists]
    ELSE IF ~features[i].has_page_name THEN [raised |-> TRUE, lists |-> lists]
    ELSE AppendFeatures(features, i + 1,
                        AppendKeywords(lists, features[i].keywords, 1, features[i].page_name))

\* prepare_candidates: appends to the lists the object already holds, then
\* encodes the whole of candidate_texts
prepare_candidates(self, enc) ==
    LET r == AppendFeatures(self.knowledge_base.features, 1,
                            [candidates |-> self.candidates,
                             candidate_texts |-> self.candidate_texts])
    IN  [raised |-> r.raised,
         candidates |-> r.lists.candidates,
         candidate_texts |-> r.lists.candidate_texts,
         candidate_embeddings |->
             IF r.raised THEN self.candidate_embeddings
             ELSE EncodeAll(enc, r.lists.candidate_texts)]

\* whether index a comes before index b in np.argsort's ascending output
ArgBefore(sims, a, b, stable) ==
    \/ ~Geq(sims[a], sims[b])
    \/ /\ Geq(sims[a], sims[b]) /\ Geq(sims[b], sims[a])
       /\ IF stable THEN a < b ELSE a > b

RECURSIVE ArgInsert(_, _, _, _)
ArgInsert(sorted, a, sims, stable) ==
    IF sorted = << >> THEN <<a>>
    ELSE IF ArgBefore(sims, Head(sorted), a, stable)
         THEN <<Head(sorted)>> \o ArgInsert(Tail(sorted), a, sims, stable)
         ELSE <<a>> \o sorted

RECURSIVE ArgSortFrom(_, _, _, _)
ArgSortFrom(sims, i, acc, stable) ==
    IF i > Len(sims) THEN acc
    ELSE ArgSortFrom(sims, i + 1, ArgInsert(acc, i, sims, stable), stable)

\* np.argsort(similarities[0]): the indices in ascending order of similarity
ArgSort(sims, stable) == ArgSortFrom(sims, 1, << >>, stable)

\* faulty variant: the reversal forgotten
ReverseNot(s) == s

\* [::-1]
Reverse(s) == [i \in 1..Len(s) |-> s[Len(s) + 1 - i]]

\* line 56
TopIndices(sims, stable) == TopK(Reverse(ArgSort(sims, stable)))

TamilResult(self, sims, idx) ==
    [page_name |-> self.candidates[idx],
     keyword |-> self.candidate_texts[idx],
     similarity_score |-> sims[idx],
     description |-> get_page_description(self.knowledge_base, self.candidates[idx])]

\* lines 50-53: similarities[0]
Similarities(self, enc, query_text) ==
    [i \in 1..Len(self.candidate_embeddings) |->
        CosineSimilarity(enc[query_text], self.candidate_embeddings[i])]

\* TamilPagePredictor.predict_page; cosine_similarity raises ValueError when
\* candidate_embeddings holds no row
TamilPredictPage(self, enc, stable, query_text) ==
    IF Len(self.candidate_embeddings) = 0
    THEN [raised |-> TRUE, results |-> << >>]
    ELSE LET sims == Similarities(self, enc, query_text)
             top == TopIndices(sims, stable)
         IN  [raised |-> FALSE,
              results |-> [i \in 1..Len(top) |-> TamilResult(self, sims, top[i])]]

-----------------------------------------------------------------------------
(* The process: module import binds `predictor`, then requests are served  *)

NoPredictor ==
    [bound |-> FALSE, knowledge_base |-> [features |-> << >>],
     keyword_to_page |-> << >>, page_keywords |-> << >>,
     candidates |-> << >>, candidate_texts |-> << >>, candidate_embeddings |-> << >>]

NoResponse ==
    [status |-> 0, query |-> << >>, predictions |-> << >>, top_prediction |-> << >>]

\* SimpleTamilPagePredictor.__init__
SimpleInit(kb) ==
    LET r == prepare_keyword_index(kb)
    IN  [raised |-> r.raised,
         self |-> [NoPredictor EXCEPT !.bound = TRUE, !.knowledge_base = kb,
                                      !.keyword_to_page = r.keyword_to_page,
                                      !.page_keywords = r.page_keywords]]

\* TamilPagePredictor.__init__
TamilInit(kb, enc) ==
    LET r == prepare_candidates([NoPredictor EXCEPT !.knowledge_base = kb], enc)
    IN  [raised |-> r.raised,
         self |-> [NoPredictor EXCEPT !.bound = TRUE, !.knowledge_base = kb,
                                      !.candidates = r.candidates,
                                      !.candidate_texts = r.candidate_texts,
                                      !.candidate_embeddings = r.candidate_embeddings]]

Construct(a, kb, enc) == IF a = "app" THEN TamilInit(kb, enc) ELSE SimpleInit(kb)

\* predictor.predict_page(query_text) of the running module
predict_page(a, self, enc, stable, query_text) ==
    IF a = "app" THEN TamilPredictPage(self, enc, stable, query_text)
    ELSE SimplePredictPage(self, self.knowledge_base, query_text)

RECURSIVE TouchWords(_, _, _)
\* faulty variant: keyword_to_page is a defaultdict(list) and each query word is
\* looked up in it, which inserts the word as a key
TouchWords(k2p, words, i) ==
    IF i > Len(words) THEN k2p
    ELSE TouchWords(IF DictHas(k2p, words[i]) THEN k2p ELSE DictSet(k2p, words[i], << >>),
                    words, i + 1)

AfterPredictPageTouching(a, self, query_text) ==
    IF a = "app" THEN self
    ELSE [self EXCEPT !.keyword_to_page = TouchWords(@, Split(Lower(query_text)), 1)]

\* the predictor object as predict_page leaves it: neither method assigns to
\* self or changes a container it holds
AfterPredictPage(a, self, query_text) == self

\* the texts a handler may be sent: any query for the keyword matcher; for
\* the embedding matcher the texts the encoder is defined on, and the empty one
QueriesOf(a) == IF a = "app" THEN EmbedTexts \cup {<< >>} ELSE Queries

\* the JSON answer of both /predict handlers after validation
Answer(query_text) ==
    LET r == predict_page(app, predictor, encode, argsortStable, query_text)
    IN  IF r.raised
        THEN [status |-> 500, query |-> query_text,
              predictions |-> << >>, top_prediction |-> << >>]
        ELSE [status |-> 200, query |-> query_text,
              predictions |-> r.results,
              top_prediction |-> IF r.results # << >> THEN <<r.results[1]>> ELSE << >>]

\* the 400 answers of the handlers' validation
BadRequest(query_text) ==
    [status |-> 400, query |-> query_text, predictions |-> << >>, top_prediction |-> << >>]

Init ==
    /\ app \in {"app", "app_simple"}
    /\ catalog_file \in CatalogsOf(app)
    /\ encode \in IF app = "app" THEN [EmbedTexts -> Vectors] ELSE {[t \in EmbedTexts |-> <<0>>]}
    /\ argsortStable \in IF app = "app" THEN BOOLEAN ELSE {TRUE}
    /\ phase = "start"
    /\ predictor = NoPredictor
    /\ reloads = 0
    /\ rebuild = "idle"
    /\ response = NoResponse

\* predictor = TamilPagePredictor() / SimpleTamilPagePredictor() at import:
\* the name is bound only if the constructor returns
Import ==
    /\ phase = "start"
    /\ LET r == Construct(app, catalog_file, encode)
       IN  /\ phase' = IF r.raised THEN "import_failed" ELSE "serving"
           /\ predictor' = IF r.raised THEN predictor ELSE r.self
    /\ UNCHANGED <<app, catalog_file, encode, argsortStable, reloads, rebuild, response>>

\* POST /predict
predict(query_text) ==
    /\ phase = "serving"
    /\ response' = IF Strip(query_text) = << >>
                   THEN BadRequest(query_text)
                   ELSE Answer(query_text)
    /\ predictor' = IF Strip(query_text) = << >>
                    THEN predictor
                    ELSE AfterPredictPage(app, predictor, query_text)
    /\ UNCHANGED <<app, catalog_file, encode, argsortStable, phase, reloads, rebuild>>

\* GET /predict
predict_get(query_text) ==
    /\ phase = "serving"
    /\ response' = IF query_text = << >>
                   THEN BadRequest(query_text)
                   ELSE Answer(query_text)
    /\ predictor' = IF query_text = << >>
                    THEN predictor
                    ELSE AfterPredictPage(app, predictor, query_text)
    /\ UNCHANGED <<app, catalog_file, encode, argsortStable, phase, reloads, rebuild>>

\* predictor.prepare_keyword_index() run again on the bound predictor
rerun_prepare_keyword_index ==
    /\ phase = "serving"
    /\ app = "app_simple"
    /\ reloads < MaxReloads
    /\ LET r == prepare_keyword_index(predictor.knowledge_base)
       IN  predictor' = [predictor EXCEPT !.keyword_to_page = r.keyword_to_page,
                                          !.page_keywords = r.page_keywords]
    /\ reloads' = reloads + 1
    /\ UNCHANGED <<app, catalog_file, encode, argsortStable, phase, rebuild, response>>

\* predictor.prepare_candidates() run again on the bound predictor while
\* requests are served: the loops of lines 37-41 have appended to the lists,
\* line 44 has not yet assigned candidate_embeddings
rerun_prepare_candidates ==
    /\ phase = "serving"
    /\ app = "app"
    /\ rebuild = "idle"
    /\ reloads < MaxReloads
    /\ LET r == AppendFeatures(predictor.knowledge_base.features, 1,
                               [candidates |-> predictor.candidates,
                                candidate_texts |-> predictor.candidate_texts])
       IN  predictor' = [predictor EXCEPT !.candidates = r.lists.candidates,
                                          !.candidate_texts = r.lists.candidate_texts]
    /\ rebuild' = "encoding"
    /\ UNCHANGED <<app, catalog_file, encode, argsortStable, phase, reloads, response>>

\* line 44 of that run: the embeddings of the whole of candidate_texts are assigned
rerun_encode_candidates ==
    /\ phase = "serving"
    /\ app = "app"
    /\ rebuild = "encoding"
    /\ predictor' = [predictor EXCEPT
                        !.candidate_embeddings = EncodeAll(encode, predictor.candidate_texts)]
    /\ rebuild' = "idle"
    /\ reloads' = reloads + 1
    /\ UNCHANGED <<app, catalog_file, encode, argsortStable, phase, response>>

Next ==
    \/ Import
    \/ \E q \in QueriesOf(app) : predict(q)
    \/ \E q \in QueriesOf(app) : predict_get(q)
    \/ rerun_prepare_keyword_index
    \/ rerun_prepare_candidates
    \/ rerun_encode_candidates

Spec == Init /\ [][Next]_vars

-----------------------------------------------------------------------------
(* Properties                                                              *)

Features == catalog_file.features

CatalogPageNames == {Features[i].page_name : i \in 1..Len(Features)}

\* the keyword list the catalog gives a page
KeywordsOfPage(page_name) ==
    Features[CHOOSE i \in 1..Len(Features) : Features[i].page_name = page_name].keywords

CatalogKeywords ==
    UNION {{Features[i].keywords[j] : j \in 1..Len(Features[i].keywords)} : i \in 1..Len(Features)}

HasMalformedFeature == \E i \in 1..Len(Features) : ~Features[i].has_page_name

\* predict_page returned a list to the handler
Answered == response.status = 200

Predictions == response.predictions

QueryWords == Split(Lower(response.query))

\* no query word is inside a keyword and no keyword is inside a query word
NoOverlap ==
    \A w \in 1..Len(QueryWords) : \A k \in CatalogKeywords :
        /\ ~Contains(QueryWords[w], Lower(k))
        /\ ~Contains(Lower(k), QueryWords[w])

IsZero(score) == score.num = 0

\* C1: predict_page returns at most 5 results, and every result's page_name
\* is the page_name of a feature of the loaded catalog (both matchers).
C1_AtMostFiveFromCatalog ==
    Answered =>
        /\ Len(Predictions) <= 5
        /\ \A i \in 1..Len(Predictions) : Predictions[i].page_name \in CatalogPageNames

\* the cut happened: more candidates than results
C1_Witness ==
    /\ Answered
    /\ app = "app"
    /\ Len(predictor.candidates) > 5
    /\ Len(Predictions) = 5

\* C2: the returned list is sorted by non-increasing similarity_score.
C2_SortedByScore ==
    Answered =>
        \A i \in 1..(Len(Predictions) - 1) :
            Geq(Predictions[i].similarity_score, Predictions[i + 1].similarity_score)

\* a list whose scores really differ
C2_Witness ==
    /\ Answered
    /\ \E i \in 1..(Len(Predictions) - 1) :
          ~Geq(Predictions[i + 1].similarity_score, Predictions[i].similarity_score)

\* C3: for a catalog with at least one page, every call of predict_page
\* returns a list with at least one element (both matchers).
C3_NeverEmpty ==
    (response.status \in {200, 500} /\ Len(Features) >= 1) =>
        (Answered /\ Len(Predictions) >= 1)

\* C4: keyword matcher: when no query word and no keyword contain one
\* another, every result has similarity_score 0, and a catalog with at least
\* one page gives at least one result.
C4_NoOverlapAllZero ==
    (app = "app_simple" /\ Answered /\ NoOverlap) =>
        /\ \A i \in 1..Len(Predictions) : IsZero(Predictions[i].similarity_score)
        /\ Len(Features) >= 1 => Len(Predictions) >= 1

\* a query with words, a catalog with keywords, nothing in common
C4_Witness ==
    /\ app = "app_simple" /\ Answered /\ NoOverlap
    /\ QueryWords # << >>
    /\ CatalogKeywords # {}
    /\ Len(Predictions) >= 2

C6_EmptyPageNeverTop ==
    (Answered /\ response.top_prediction # << >>) =>
        KeywordsOfPage(response.top_prediction[1].page_name) # << >>

\* C6 amended: under the embedding matcher a page with an empty keyword list
\* is never in the results; under the keyword matcher it is the top
\* prediction only when no keyword matched, every result then scoring 0.
C6_EmptyPageTopOnlyUnscored ==
    Answered =>
        /\ app = "app" =>
              \A i \in 1..Len(Predictions) : KeywordsOfPage(Predictions[i].page_name) # << >>
        /\ (/\ app = "app_simple"
            /\ response.top_prediction # << >>
            /\ KeywordsOfPage(response.top_prediction[1].page_name) = << >>) =>
              /\ NoOverlap
              /\ \A i \in 1..Len(Predictions) : IsZero(Predictions[i].similarity_score)

\* an empty page on top although the catalog has keywords
C6_Witness ==
    /\ app = "app_simple" /\ Answered
    /\ response.top_prediction # << >>
    /\ KeywordsOfPage(response.top_prediction[1].page_name) = << >>
    /\ CatalogKeywords # {}
    /\ QueryWords # << >>

\* C7: a catalog with a feature that lacks page_name makes the import fail,
\* and no predictor is ever bound to the module-level name.
C7_MalformedNeverPublished ==
    HasMalformedFeature =>
        /\ ~predictor.bound
        /\ phase \in {"start", "import_failed"}

\* the constructor failed after features with keywords had been indexed
C7_Witness ==
    /\ phase = "import_failed"
    /\ ~Features[Len(Features)].has_page_name
    /\ Len(Features) >= 2
    /\ Features[1].keywords # << >>

\* C8: a catalog with zero pages fails at load; no predictor serves it.
C8_EmptyCatalogFails ==
    Len(Features) = 0 => (~predictor.bound /\ phase # "serving")

\* the predictor a fresh construction from the unchanged catalog gives
FreshPredictor == Construct(app, catalog_file, encode).self

\* C9: after any number of index rebuilds from the unchanged catalog,
\* predict_page returns for a query exactly what a fresh predictor returns.
C9_ReloadPreservesOutput ==
    response.status \in {200, 500} =>
        LET fresh == predict_page(app, FreshPredictor, encode, argsortStable, response.query)
        IN  /\ fresh.raised <=> response.status = 500
            /\ response.predictions = fresh.results

\* C10: embedding matcher: of two candidates with equal similarity the one
\* with the smaller candidate index is ranked first, and is the one kept at
\* the top-5 cut.
C10_TiesByCandidateIndex ==
    (app = "app" /\ Answered) =>
        LET sims == Similarities(predictor, encode, response.query)
            top == TopIndices(sims, argsortStable)
        IN  /\ \A i, j \in 1..Len(top) :
                  (i < j /\ sims[top[i]] = sims[top[j]]) => top[i] < top[j]
            /\ \A i \in 1..Len(top) : \A b \in 1..Len(sims) :
                  (sims[top[i]] = sims[b] /\ \A j \in 1..Len(top) : top[j] # b)
                      => top[i] < b

\* the (query word, keyword_to_page entry) pairs the scan finds matching
MatchingPairs ==
    {m \in (1..Len(QueryWords)) \X (1..Len(predictor.keyword_to_page)) :
        \/ Contains(QueryWords[m[1]], Lower(predictor.keyword_to_page[m[2]].key))
        \/ Contains(Lower(predictor.keyword_to_page[m[2]].key), QueryWords[m[1]])}

\* the (word, keyword_to_page entry, position in its page list) triples that
\* add 1 to the score of a page
HitsOf(page_name) ==
    UNION {{<<m[1], m[2], pos>> :
               pos \in {q \in 1..Len(predictor.keyword_to_page[m[2]].value) :
                           predictor.keyword_to_page[m[2]].value[q] = page_name}} :
           m \in MatchingPairs}

AnyHit == \E n \in CatalogPageNames : HitsOf(n) # {}

CatalogIndex(page_name) ==
    CHOOSE i \in 1..Len(Features) : Features[i].page_name = page_name

\* t comes before u in the scan: words in query order, then keywords in
\* keyword_to_page order, then the pages of the keyword in list order
ScannedBefore(t, u) ==
    \/ t[1] < u[1]
    \/ t[1] = u[1] /\ t[2] < u[2]
    \/ t[1] = u[1] /\ t[2] = u[2] /\ t[3] < u[3]

\* page a entered page_scores before page b
DiscoveredBefore(a, b) ==
    IF AnyHit
    THEN \E t \in HitsOf(a) : \A u \in HitsOf(b) : ScannedBefore(t, u)
    ELSE CatalogIndex(a) < CatalogIndex(b)

\* the pages page_scores holds
ScoredPages == IF AnyHit THEN {n \in CatalogPageNames : HitsOf(n) # {}} ELSE CatalogPageNames

\* C11: keyword matcher: pages of equal score are ordered by their first
\* insertion into page_scores (catalog order when nothing matched), and that
\* order decides which of them survive the top-5 cut.
C11_TiesByFirstDiscovery ==
    (app = "app_simple" /\ Answered) =>
        \A i \in 1..Len(Predictions) : \A n \in ScoredPages :
            (/\ \A j \in 1..i : Predictions[j].page_name # n
             /\ Predictions[i].similarity_score =
                    Divide(Cardinality(HitsOf(n)), Max(Len(QueryWords), 1)))
                => DiscoveredBefore(Predictions[i].page_name, n)

\* two pages tie on a positive score and the one later in the catalog is first
C11_Witness ==
    /\ app = "app_simple" /\ Answered
    /\ Len(Predictions) >= 2
    /\ Predictions[1].similarity_score = Predictions[2].similarity_score
    /\ ~IsZero(Predictions[1].similarity_score)
    /\ CatalogIndex(Predictions[1].page_name) > CatalogIndex(Predictions[2].page_name)

\* six pages tie and the cut drops the last discovered one
C11_WitnessCut ==
    /\ app = "app_simple" /\ Answered
    /\ Len(Predictions) = 5
    /\ \E n \in ScoredPages :
          /\ \A j \in 1..5 : Predictions[j].page_name # n
          /\ Predictions[5].similarity_score =
                 Divide(Cardinality(HitsOf(n)), Max(Len(QueryWords), 1))
    /\ ~IsZero(Predictions[5].similarity_score)

\* the distinct keywords of a page, case-folded
DistinctKeywordsOf(page_name) ==
    {Lower(KeywordsOfPage(page_name)[j]) : j \in 1..Len(KeywordsOfPage(page_name))}

\* H: the (query word, distinct keyword of the page) pairs in which one
\* contains the other
PairsOf(page_name) ==
    {m \in (1..Len(QueryWords)) \X DistinctKeywordsOf(page_name) :
        Contains(QueryWords[m[1]], m[2]) \/ Contains(m[2], QueryWords[m[1]])}

\* C12: keyword matcher: the similarity_score of a returned page is H / max(W, 1),
\* W the number of query words, H the number of (query word, distinct keyword
\* of the page) pairs in which one contains the other.
C12_ScoreIsPairsOverWords ==
    (app = "app_simple" /\ Answered) =>
        \A i \in 1..Len(Predictions) :
            Predictions[i].similarity_score =
                Divide(Cardinality(PairsOf(Predictions[i].page_name)), Max(Len(QueryWords), 1))

\* some query word is inside the keyword or the keyword inside some query word
MatchedByScoringRule(keyword) ==
    \E w \in 1..Len(QueryWords) :
        Contains(QueryWords[w], Lower(keyword)) \/ Contains(Lower(keyword), QueryWords[w])

\* some query word is inside the keyword
SharesWord(keyword) ==
    \E w \in 1..Len(QueryWords) : Contains(QueryWords[w], Lower(keyword))

\* C13: keyword matcher: the keyword reported for a page is its first keyword
\* that shares a word with the query, else its first keyword; for a page with
\* a positive score it is a keyword that matched under the scoring rule.
C13_ReportedKeywordMatched ==
    (app = "app_simple" /\ Answered) =>
        \A i \in 1..Len(Predictions) :
            LET kws == KeywordsOfPage(Predictions[i].page_name)
                sharing == {j \in 1..Len(kws) : SharesWord(kws[j])}
            IN  /\ Predictions[i].keyword =
                      IF sharing # {}
                      THEN kws[CHOOSE j \in sharing : \A l \in sharing : j <= l]
                      ELSE IF kws # << >> THEN kws[1] ELSE << >>
                /\ ~IsZero(Predictions[i].similarity_score) =>
                      MatchedByScoringRule(Predictions[i].keyword)

\* the pages that list the keyword in some spelling
PagesListing(keyword) ==
    {Features[i].page_name : i \in {f \in 1..Len(Features) :
        \E j \in 1..Len(Features[f].keywords) : Lower(Features[f].keywords[j]) = Lower(keyword)}}

\* C14: keyword_to_page has exactly one entry per distinct case-folded keyword
\* of the catalog, holding the pages that list the keyword, each page once.
C14_OneEntryPerFoldedKeyword ==
    (app = "app_simple" /\ predictor.bound) =>
        LET k2p == predictor.keyword_to_page
        IN  /\ Len(k2p) = Cardinality({Lower(k) : k \in CatalogKeywords})
            /\ \A e \in 1..Len(k2p) :
                  /\ \A a, b \in 1..Len(k2p[e].value) : a # b => k2p[e].value[a] # k2p[e].value[b]
                  /\ {k2p[e].value[a] : a \in 1..Len(k2p[e].value)} = PagesListing(k2p[e].key)

RECURSIVE CatalogPairsFrom(_)
\* the (page, keyword) pairs of the catalog, pages in order, keywords in order
CatalogPairsFrom(i) ==
    IF i > Len(Features) THEN << >>
    ELSE [j \in 1..Len(Features[i].keywords) |->
             [page_name |-> Features[i].page_name, keyword |-> Features[i].keywords[j]]]
         \o CatalogPairsFrom(i + 1)

\* C15: whenever a handler can reach a TamilPagePredictor, candidates,
\* candidate_texts and candidate_embeddings have the same length and entry i
\* of each belongs to the i-th (page, keyword) pair of the catalog, also
\* during and after reruns of prepare_candidates.
C15_ListsAligned ==
    (app = "app" /\ predictor.bound) =>
        LET pairs == CatalogPairsFrom(1)
        IN  /\ Len(predictor.candidates) = Len(pairs)
            /\ Len(predictor.candidate_texts) = Len(pairs)
            /\ Len(predictor.candidate_embeddings) = Len(pairs)
            /\ \A i \in 1..Len(pairs) :
                  /\ predictor.candidates[i] = pairs[i].page_name
                  /\ predictor.candidate_texts[i] = pairs[i].keyword
                  /\ predictor.candidate_embeddings[i] = encode[pairs[i].keyword]

=============================================================================
